---- MODULE Spec2Model ----
(***************************************************************************)
(* Model of app.py, a Streamlit script.  One step of the model is one user *)
(* interaction (widget change or button click) followed by the script run  *)
(* Streamlit starts for it: the script executes top to bottom against the  *)
(* persistent st.session_state and the widget values, and a successful     *)
(* "Load Model" ends in st.rerun(), which runs the script once more inside *)
(* the same step.                                                          *)
(*                                                                         *)
(* External collaborators are modelled by their outcomes:                  *)
(*   - writing the upload into the temporary file succeeds or raises       *)
(*     (drawn per script run);                                             *)
(*   - convert_from_path is a function of the uploaded file: a file is     *)
(*     convertible or not, and a convertible file has a number of pages;   *)
(*   - mlx_load / load_config return handles or raise an exception whose   *)
(*     message is empty or not (drawn per click);                          *)
(*   - apply_chat_template / generate return or raise (drawn per click);   *)
(*   - st.image and os.unlink return.                                      *)
(***************************************************************************)
EXTENDS Integers, FiniteSets

VARIABLES
    model_name,     \* value of the model selectbox (index into available_models)
    uploaded_file,  \* value of the file uploader: None or a file
    page_widget,    \* the page selectbox as rendered by the last run
    session_state,  \* st.session_state
    tmp_files,      \* number of temporary PDF files existing on disk
    screen,         \* what the last script run rendered in the OCR section
    run             \* trace of the last step: event and the external calls made

vars == <<model_name, uploaded_file, page_widget, session_state, tmp_files, screen, run>>

----------------------------------------------------------------------------
(* Bounds *)

NumModels == 2
MaxPages == 2
MaxTmpFiles == 1

----------------------------------------------------------------------------
(* Values *)

None == [tag |-> "None"]

available_models == {[tag |-> "id", index |-> i] : i \in 1..NumModels}

Model(m) == [tag |-> "model", id |-> m]
Processor(m) == [tag |-> "processor", id |-> m]
Config(m) == [tag |-> "config", id |-> m]

PdfFile(c, n) == [tag |-> "pdf", convertible |-> c, pages |-> n]
Files == {PdfFile(FALSE, 0)} \cup {PdfFile(TRUE, n) : n \in 0..MaxPages}

Image(f, p) == [tag |-> "image", file |-> f, page |-> p]

EmptyText == [tag |-> "text", empty |-> TRUE]
Text(m, img) == [tag |-> "text", empty |-> FALSE, model |-> m, image |-> img]

NotRendered == [options |-> 0, value |-> 1]

NoError == "<None>"
Truthy(s) == s \notin {NoError, ""}

----------------------------------------------------------------------------
(* load_vision_model *)

LoadOutcomes ==
    {[raises |-> "none", message |-> ""]}
    \cup [raises : {"mlx_load", "load_config"}, message : {"", "load failed"}]

load_vision_model(name, outcome) ==
    IF outcome.raises = "none"
    THEN [model |-> Model(name), processor |-> Processor(name),
          config |-> Config(name), error |-> NoError]
    ELSE [model |-> None, processor |-> None, config |-> None,
          error |-> outcome.message]

----------------------------------------------------------------------------
(* st.session_state is a function from the keys present to their values;  *)
(* "k in st.session_state" is k \in DOMAIN ss.                             *)

Put(ss, k, v) == [x \in DOMAIN ss \cup {k} |-> IF x = k THEN v ELSE ss[x]]

InitSessionState ==
    [model |-> None, processor |-> None, model_loaded |-> FALSE, model_name |-> None]

----------------------------------------------------------------------------
(* Upload handling: temporary file, conversion, page selection, store.     *)
(* file: the uploader's value; pw: the page selectbox state entering the   *)
(* run; tmp: temporary files on disk; write_ok: whether tmp_file.write     *)
(* returns.  A write that raises is outside the try block: the exception   *)
(* is uncaught and ends the script run (aborted).                          *)

PageValue(pw, n) == IF pw.options = n THEN pw.value ELSE 1

\* ConversionFailed with a fault: the failed upload drops the stored page.
ConversionFailed_dropsImage(ss, tmp) ==
    [ss |-> [k \in DOMAIN ss \ {"current_image", "page_num"} |-> ss[k]],
     pw |-> NotRendered, tmp |-> tmp, aborted |-> FALSE, error |-> "conversion"]

\* convert_from_path raised: except reports, finally unlinks the file.
ConversionFailed(ss, tmp) ==
    [ss |-> ss, pw |-> NotRendered, tmp |-> tmp, aborted |-> FALSE, error |-> "conversion"]

UploadBlock(file, pw, ss, tmp, write_ok) ==
    IF file = None
    THEN [ss |-> ss, pw |-> NotRendered, tmp |-> tmp, aborted |-> FALSE, error |-> "none"]
    ELSE IF ~write_ok
    THEN [ss |-> ss, pw |-> NotRendered, tmp |-> tmp + 1, aborted |-> TRUE, error |-> "none"]
    ELSE IF ~file.convertible
    THEN ConversionFailed(ss, tmp)
    ELSE LET n == file.pages
             page_num == IF n > 1 THEN PageValue(pw, n) ELSE 1
             pw2 == IF n > 1 THEN [options |-> n, value |-> page_num] ELSE NotRendered
         IN IF page_num > n
            THEN [ss |-> ss, pw |-> pw2, tmp |-> tmp, aborted |-> FALSE, error |-> "page_index"]
            ELSE [ss |-> Put(Put(ss, "current_image", Image(file, page_num)),
                             "page_num", page_num),
                  pw |-> pw2, tmp |-> tmp, aborted |-> FALSE, error |-> "none"]

----------------------------------------------------------------------------
(* OCR Results section *)

\* LoadOffered with a fault: the button is rendered whatever is loaded.
LoadOffered_always(ss, sel) == TRUE

LoadOffered(ss, sel) == ~ss.model_loaded \/ ss.model_name # sel

LoadHandler(ss, sel, outcome) ==
    LET r == load_vision_model(sel, outcome)
    IN IF Truthy(r.error)
       THEN [ss |-> ss, rerun |-> FALSE, message |-> "Failed to load model"]
       ELSE [ss |-> [Put(ss, "config", r.config) EXCEPT
                        !.model = r.model, !.processor = r.processor,
                        !.model_loaded = TRUE, !.model_name = sel],
             rerun |-> TRUE, message |-> "Model loaded successfully"]

\* ExtractOffered with a fault: the OCR branch is entered without a model.
ExtractOffered_always(ss) == TRUE

ExtractOffered(ss) == ss.model_loaded

ExtractOutcomes == {"ok", "ok_empty", "format_raises", "generate_raises"}

\* apply_chat_template reads the processor and config: with None it raises.
EffectiveOutcome(ss, outcome) ==
    IF ss.processor = None THEN "format_raises" ELSE outcome

\* ExtractHandler with a fault: a failed extraction clears the stored result.
ExtractHandler_clearsOnError(ss, outcome) ==
    LET o == EffectiveOutcome(ss, outcome)
    IN [ss |-> IF o = "ok"
               THEN Put(ss, "output_text", Text(ss.model.id, ss.current_image))
               ELSE Put(ss, "output_text", EmptyText),
        format_called |-> TRUE,
        generate_called |-> o # "format_raises",
        raised |-> o \in {"format_raises", "generate_raises"}]

ExtractHandler(ss, outcome) ==
    LET o == EffectiveOutcome(ss, outcome)
    IN [ss |-> IF o = "ok"
               THEN Put(ss, "output_text", Text(ss.model.id, ss.current_image))
               ELSE IF o = "ok_empty"
               THEN Put(ss, "output_text", EmptyText)
               ELSE ss,
        format_called |-> TRUE,
        generate_called |-> o # "format_raises",
        raised |-> o \in {"format_raises", "generate_raises"}]

ResultShown(ss) ==
    IF "output_text" \in DOMAIN ss /\ ~ss.output_text.empty
    THEN [tag |-> "result", label_page |-> ss.page_num, text |-> ss.output_text,
          file_name_page |-> ss.page_num]
    ELSE None

BlankScreen ==
    [load_button |-> FALSE, extract_button |-> FALSE, ready |-> None,
     result |-> None, message |-> "none"]

NoCalls ==
    [load_called |-> FALSE, load_raised |-> FALSE, format_called |-> FALSE,
     generate_called |-> FALSE, extract_raised |-> FALSE]

OCRSection(sel, ss, click, load_outcome, extract_outcome) ==
    IF "current_image" \notin DOMAIN ss
    THEN [ss |-> ss, rerun |-> FALSE, calls |-> NoCalls,
          screen |-> [BlankScreen EXCEPT !.message = "Upload a PDF file to begin"]]
    ELSE
    LET lb == LoadOffered(ss, sel)
        loading == lb /\ click = "load"
        lh == IF loading THEN LoadHandler(ss, sel, load_outcome)
              ELSE [ss |-> ss, rerun |-> FALSE, message |-> "none"]
        lcalls == [NoCalls EXCEPT !.load_called = loading,
                                  !.load_raised = loading /\ load_outcome.raises # "none"]
    IN IF lh.rerun
       THEN [ss |-> lh.ss, rerun |-> TRUE, calls |-> lcalls,
             screen |-> [BlankScreen EXCEPT !.load_button = lb, !.message = lh.message]]
       ELSE IF ExtractOffered(lh.ss)
       THEN LET extracting == click = "extract"
                eh == IF extracting THEN ExtractHandler(lh.ss, extract_outcome)
                      ELSE [ss |-> lh.ss, format_called |-> FALSE,
                            generate_called |-> FALSE, raised |-> FALSE]
            IN [ss |-> eh.ss, rerun |-> FALSE,
                calls |-> [lcalls EXCEPT !.format_called = eh.format_called,
                                         !.generate_called = eh.generate_called,
                                         !.extract_raised = eh.raised],
                screen |-> [load_button |-> lb, extract_button |-> TRUE,
                            ready |-> lh.ss.model_name,
                            result |-> ResultShown(eh.ss),
                            message |-> IF eh.raised THEN "Error during OCR"
                                        ELSE lh.message]]
       ELSE [ss |-> lh.ss, rerun |-> FALSE, calls |-> lcalls,
             screen |-> [load_button |-> lb, extract_button |-> FALSE,
                         ready |-> None, result |-> None,
                         message |-> IF lh.message # "none" THEN lh.message
                                     ELSE "Click 'Load Model' to start"]]

----------------------------------------------------------------------------
(* One execution of the script, top to bottom: the upload block, then the  *)
(* OCR Results section unless the upload block ended the run.              *)

AfterUpload(up, sel, click, load_outcome, extract_outcome) ==
    IF up.aborted
    THEN [ss |-> up.ss, rerun |-> FALSE, calls |-> NoCalls, screen |-> BlankScreen]
    ELSE OCRSection(sel, up.ss, click, load_outcome, extract_outcome)

NoLoad == [raises |-> "none", message |-> ""]

\* The writes that may raise in a run: only when a file is uploaded, and
\* only while fewer than MaxTmpFiles temporary files are left on disk.
WriteOutcomes(file, tmp) ==
    IF file # None /\ tmp < MaxTmpFiles THEN {TRUE, FALSE} ELSE {TRUE}

\* A user interaction: the widgets take their new values, the script runs
\* (up1, ocr1), and runs again (up2, ocr2) when the first run ended in
\* st.rerun().
Interact(event, sel, file, pw, click, load_outcome, extract_outcome) ==
    \E w1 \in WriteOutcomes(file, tmp_files) :
    \E up1 \in {UploadBlock(file, pw, session_state, tmp_files, w1)} :
    \E ocr1 \in {AfterUpload(up1, sel, click, load_outcome, extract_outcome)} :
    \E w2 \in IF ocr1.rerun THEN WriteOutcomes(file, up1.tmp) ELSE {TRUE} :
    \E up2 \in {IF ocr1.rerun THEN UploadBlock(file, up1.pw, ocr1.ss, up1.tmp, w2)
                ELSE up1} :
    \E ocr2 \in {IF ocr1.rerun THEN AfterUpload(up2, sel, "none", NoLoad, "ok")
                 ELSE ocr1} :
        /\ model_name' = sel
        /\ uploaded_file' = file
        /\ page_widget' = up2.pw
        /\ session_state' = ocr2.ss
        /\ tmp_files' = up2.tmp
        /\ screen' = ocr2.screen
        /\ run' = [event |-> event,
                   write_raised |-> up1.aborted \/ up2.aborted,
                   upload_error |-> up1.error,
                   load_called |-> ocr1.calls.load_called,
                   load_raised |-> ocr1.calls.load_raised,
                   format_called |-> ocr1.calls.format_called,
                   generate_called |-> ocr1.calls.generate_called,
                   extract_raised |-> ocr1.calls.extract_raised,
                   reran |-> ocr1.rerun]

----------------------------------------------------------------------------
(* Actions: the user's interactions *)

SelectModel ==
    \E m \in available_models \ {model_name} :
        Interact("select_model", m, uploaded_file, page_widget, "none", NoLoad, "ok")

UploadFile ==
    \E f \in Files \ {uploaded_file} :
        Interact("upload", model_name, f, page_widget, "none", NoLoad, "ok")

RemoveFile ==
    /\ uploaded_file # None
    /\ Interact("remove_file", model_name, None, page_widget, "none", NoLoad, "ok")

SelectPage ==
    /\ page_widget.options > 1
    /\ \E p \in (1..page_widget.options) \ {page_widget.value} :
        Interact("select_page", model_name, uploaded_file,
                 [page_widget EXCEPT !.value = p], "none", NoLoad, "ok")

ClickLoadModel ==
    /\ screen.load_button
    /\ \E lo \in LoadOutcomes :
        Interact("click_load", model_name, uploaded_file, page_widget, "load", lo, "ok")

ClickExtractText ==
    /\ screen.extract_button
    /\ \E eo \in ExtractOutcomes :
        Interact("click_extract", model_name, uploaded_file, page_widget,
                 "extract", NoLoad, eo)

InitRun ==
    [event |-> "start", write_raised |-> FALSE, upload_error |-> "none",
     load_called |-> FALSE, load_raised |-> FALSE, format_called |-> FALSE,
     generate_called |-> FALSE, extract_raised |-> FALSE, reran |-> FALSE]

\* The state after the first script run of a new session: first model
\* selected (index=0), no file, session state initialised.
Init ==
    /\ model_name = [tag |-> "id", index |-> 1]
    /\ uploaded_file = None
    /\ page_widget = NotRendered
    /\ session_state = InitSessionState
    /\ tmp_files = 0
    /\ screen = [BlankScreen EXCEPT !.message = "Upload a PDF file to begin"]
    /\ run = InitRun

Next ==
    \/ SelectModel
    \/ UploadFile
    \/ RemoveFile
    \/ SelectPage
    \/ ClickLoadModel
    \/ ClickExtractText

Spec == Init /\ [][Next]_vars

----------------------------------------------------------------------------
(* Properties *)

Loaded == session_state.model_loaded
Matching == session_state.model_name = model_name
HasImage == "current_image" \in DOMAIN session_state
Ready == screen.ready # None \/ screen.extract_button
OutputText(ss) == IF "output_text" \in DOMAIN ss THEN ss.output_text ELSE None
ModelFields(ss) ==
    <<ss.model, ss.processor, ss.config, ss.model_loaded, ss.model_name>>

\* C1: generation is called by an extract action only when a model is
\* loaded and the identifier recorded for it equals the selected identifier.
C1_GenerateOnlyWithSelectedModel ==
    run.generate_called => (Loaded /\ Matching)

\* C2: from the moment a different identifier is selected while a model is
\* loaded until a load of the selected identifier succeeds (that is, while a
\* model is loaded and its recorded identifier differs from the selection),
\* the session is not ready: no "Model ready" caption, no Extract button.
C2_NotReadyWhileSelectionDiffers ==
    (Loaded /\ ~Matching) => ~Ready

\* C3: after a load-model action whose load raised, the session is not
\* loaded: the flag is false and no model, processor or config is held.
C3_FailedLoadLeavesNotLoaded ==
    run.load_raised =>
        /\ ~Loaded
        /\ session_state.model = None
        /\ session_state.processor = None
        /\ "config" \notin DOMAIN session_state

\* C4: a result extracted from page k of the document is not displayed or
\* offered for download once page j # k is selected: whatever is displayed
\* for the current document was extracted from the page it is labelled with.
C4_ResultHiddenAfterPageChange ==
    (screen.result # None /\ HasImage
        /\ screen.result.text.image.file = session_state.current_image.file)
    => /\ screen.result.text.image.page = screen.result.label_page
       /\ screen.result.text.image.page = screen.result.file_name_page

\* C5: while a model is loaded and its recorded identifier is the selected
\* one, the Load Model button is not offered, and no step calls the
\* model-load operation or changes model, processor, config, loaded flag or
\* model_name.
C5_LoadIdempotent ==
    [][(Loaded /\ Matching) =>
          /\ ~screen.load_button
          /\ ~run'.load_called
          /\ ModelFields(session_state') = ModelFields(session_state)]_vars

C5_Witness ==
    /\ Loaded /\ Matching /\ HasImage
    /\ session_state.model = Model(model_name)
    /\ run.event = "click_load" /\ run.reran
    /\ screen.extract_button /\ ~screen.load_button

\* C6: an extract action in which prompt formatting or generation raises
\* leaves the whole session state as it was: output_text (absent or the
\* previous result), model, processor, config, flag, model_name, current
\* image and page number.
C6_FailedExtractKeepsState ==
    [][run'.extract_raised => session_state' = session_state]_vars

C6_Witness ==
    /\ run.extract_raised
    /\ run.generate_called
    /\ OutputText(session_state) # None
    /\ ~session_state.output_text.empty

\* C7: while no model is loaded, the Extract button is not offered and no
\* step calls the prompt formatter or the generator or changes output_text.
C7_NoInferenceWithoutModel ==
    [][~Loaded =>
          /\ ~screen.extract_button
          /\ ~run'.format_called
          /\ ~run'.generate_called
          /\ OutputText(session_state') = OutputText(session_state)]_vars

C7_Witness ==
    /\ ~Loaded /\ HasImage
    /\ run.event = "click_load" /\ run.load_raised
    /\ screen.load_button /\ ~screen.extract_button

\* C8: a script run in which PDF rasterization raises leaves current_image
\* and page_num as they were (set by the last successful upload, or absent),
\* and, when the run was started by the upload itself, leaves the whole
\* session state unmodified.
C8_FailedConversionKeepsState ==
    [][run'.upload_error = "conversion" =>
          /\ HasImage' = HasImage
          /\ (HasImage =>
                /\ session_state'.current_image = session_state.current_image
                /\ session_state'.page_num = session_state.page_num)
          /\ (run'.event = "upload" => session_state' = session_state)]_vars

C8_Witness ==
    /\ run.upload_error = "conversion" /\ run.event = "upload"
    /\ HasImage /\ Loaded
    /\ OutputText(session_state) # None

\* C9: at the end of every script run no temporary PDF file exists.
C9_NoTempFileLeft ==
    tmp_files = 0

\* C10: model_loaded implies that model, processor and config are the
\* values returned by a load of model_name that did not raise.
C10_LoadedImpliesHandles ==
    Loaded =>
        /\ session_state.model = Model(session_state.model_name)
        /\ session_state.processor = Processor(session_state.model_name)
        /\ session_state.config = Config(session_state.model_name)

====
